---- MODULE Spec2Model ----
(***************************************************************************)
(* Payment initiation, gateway callback reconciliation and referral        *)
(* accounting of the two servers of the repository:                        *)
(*   src/sever.js          Daraja STK push, transactions.json and          *)
(*                         referrals.json under ./data                     *)
(*   src/unnamed/part_000  PayHero STK push, referrals.json                *)
(* One of the two files is the process that runs; `server` says which.     *)
(*                                                                         *)
(* Representation.  Strings that the code inspects character by character  *)
(* (phone numbers, amounts given to parseInt) are sequences of one-letter  *)
(* strings.  A JavaScript property that is absent (undefined, dropped by   *)
(* JSON.stringify) is the value Undefined; null is Null.  The number       *)
(* valued field referralEarnings is 0 while it is absent.  Fields that no  *)
(* handler reads back (reference, merchantRequestID, email, timestamps,    *)
(* phoneNumber, transactionDate) are left out of the records.              *)
(*                                                                         *)
(* Scope.  The module-level setup of sever.js (lines 1-56) is taken to     *)
(* complete, and a request reaches its handler with the body express.json  *)
(* parsed.  Handlers without an await run to completion as one action; the *)
(* /api/pay handlers are split at their awaits.  Reads and writes of the   *)
(* JSON files are taken to succeed.                                        *)
(***************************************************************************)
EXTENDS Integers, Sequences, FiniteSets, TLC

VARIABLES
    server,        \* which file is running
    transactions,  \* sever.js: contents of data/transactions.json
    referrals,     \* sever.js: contents of data/referrals.json
    pays,          \* sever.js: the /api/pay handlers, one record per request
    gwIssued,      \* CheckoutRequestIDs the gateway has handed out
    gwAcked,       \* CheckoutRequestIDs whose result the server has
                   \* acknowledged with 200, after which the gateway stops
                   \* sending it
    nCb,           \* sever.js: number of callbacks handled
    cb,            \* sever.js: the answer to the last callback
    nGen,          \* sever.js: number of /api/referral/generate requests
    nodeEnv,       \* part_000: process.env.NODE_ENV
    phReferrals,   \* part_000: contents of referrals.json
    phPays,        \* part_000: the /api/pay handlers
    phCb,          \* part_000: answers given to callbacks
    q              \* the answer to the last read request (GET, payout)

vars == <<server, transactions, referrals, pays, gwIssued, gwAcked, nCb,
          cb, nGen, nodeEnv, phReferrals, phPays, phCb, q>>

severVars == <<transactions, referrals, pays, gwIssued, gwAcked, nCb, cb,
               nGen>>
phVars == <<phReferrals, phPays, phCb>>

----------------------------------------------------------------------------
(* Bounds of the exploration *)

MaxPay == 2
MaxCb == 2
MaxGen == 2
MaxPhPay == 2
MaxPhCb == 1

----------------------------------------------------------------------------
(* Values *)

Undefined == "undefined"
Null == "null"

Servers == {"sever.js", "part_000"}

Codes == {"ABC"}

Phones == {<<>>, <<"0", "7">>, <<"+", "2", "5", "4", "7">>}
Services == {"", "netflix"}
Plans == {"", "basic"}
Amounts == {0, 50, 100}

StartsWith(s, p) == Len(s) >= Len(p) /\ SubSeq(s, 1, Len(p)) = p

Slice(s, n) == SubSeq(s, n + 1, Len(s))

\* sever.js 198-200
formattedPhone(phone) ==
    IF StartsWith(phone, <<"2", "5", "4">>) THEN phone
    ELSE IF StartsWith(phone, <<"0">>) THEN <<"2", "5", "4">> \o Slice(phone, 1)
    ELSE IF StartsWith(phone, <<"+", "2", "5", "4">>) THEN Slice(phone, 1)
    ELSE <<"2", "5", "4">> \o phone

\* uuidv4(): a token no earlier request has
uuidv4(n) == "tx" \o ToString(n)

\* the gateway's CheckoutRequestID for the n-th push it accepts
CheckoutId(n) == "ws_CO_" \o ToString(n)

\* a CheckoutRequestID this gateway never gave to this server
ForeignKey == "ws_CO_other"

\* the MpesaReceiptNumber item the gateway reports for a checkout
ReceiptOf(key) == "R-" \o key

ResultDesc == "Request cancelled by user"

\* request bodies of POST /api/pay: complete ones, and ones with one field
\* missing
PayBodies ==
    { b \in [phone : Phones, service : Services, plan : Plans,
             amount : Amounts, referralId : Codes \cup {Undefined}] :
        \/ b.phone # <<>> /\ b.service # "" /\ b.plan # "" /\ b.amount # 0
        \/ /\ b.referralId = Undefined
           /\ b \in { [phone |-> <<>>, service |-> "netflix", plan |-> "basic",
                       amount |-> 100, referralId |-> Undefined],
                      [phone |-> <<"0", "7">>, service |-> "", plan |-> "basic",
                       amount |-> 100, referralId |-> Undefined],
                      [phone |-> <<"0", "7">>, service |-> "netflix", plan |-> "",
                       amount |-> 100, referralId |-> Undefined],
                      [phone |-> <<"0", "7">>, service |-> "netflix",
                       plan |-> "basic", amount |-> 0,
                       referralId |-> Undefined] } }

\* sever.js 193: !phone || !service || !plan || !amount
MissingFields(b) ==
    b.phone = <<>> \/ b.service = "" \/ b.plan = "" \/ b.amount = 0

\* answers of the gateway to an STK push (sever.js 131-146): accepted with a
\* CheckoutRequestID, accepted without one, refused, or no usable answer
\* (HTTP error status, network error, timeout: axios throws)
StkAccepted(key) == [ResponseCode |-> "0", CheckoutRequestID |-> key]
StkRefused == [ResponseCode |-> "1", CheckoutRequestID |-> Undefined]
StkThrown == [ResponseCode |-> "throw", CheckoutRequestID |-> Undefined]
NoReply == [ResponseCode |-> "none", CheckoutRequestID |-> Undefined]

\* shapes of the POST /api/callback payload
CbShapes == {"success", "successNoReceipt", "successNoMeta", "failed",
             "malformed"}

----------------------------------------------------------------------------
(* sever.js: referral credit of the callback handler *)

referralEarnings == 10

\* Credit with the account rebuilt on every call
CreditRebuilt(refs, code, txId) ==
    [c \in DOMAIN refs \cup {code} |->
        IF c = code
        THEN [earnings |-> referralEarnings,
              totalEarnings |-> referralEarnings,
              transactions |-> <<[transactionId |-> txId,
                                  amount |-> referralEarnings]>>]
        ELSE refs[c]]

\* sever.js 274-290
Credit(refs, code, txId) ==
    LET acct == IF code \in DOMAIN refs THEN refs[code]
                ELSE [earnings |-> 0, totalEarnings |-> 0, transactions |-> <<>>]
        upd == [earnings |-> acct.earnings + referralEarnings,
                totalEarnings |-> acct.totalEarnings + referralEarnings,
                transactions |-> Append(acct.transactions,
                                        [transactionId |-> txId,
                                         amount |-> referralEarnings])]
    IN [c \in DOMAIN refs \cup {code} |-> IF c = code THEN upd ELSE refs[c]]

\* findIndex falling back to the first transaction when none matches
findIndexFallback(txs, key) ==
    IF \E i \in 1..Len(txs) : txs[i].checkoutRequestID = key
    THEN CHOOSE i \in 1..Len(txs) :
            /\ txs[i].checkoutRequestID = key
            /\ \A j \in 1..(i - 1) : txs[j].checkoutRequestID # key
    ELSE IF txs # <<>> THEN 1 ELSE 0

\* sever.js 260: findIndex, 0 for -1
findIndex(txs, key) ==
    IF \E i \in 1..Len(txs) : txs[i].checkoutRequestID = key
    THEN CHOOSE i \in 1..Len(txs) :
            /\ txs[i].checkoutRequestID = key
            /\ \A j \in 1..(i - 1) : txs[j].checkoutRequestID # key
    ELSE 0

\* sever.js 312
CallbackOk == [status |-> 200, ResultCode |-> 0]

\* the catch block answering with an error status
CallbackCatch500 == [status |-> 500, ResultCode |-> 1]

\* sever.js 313-316
CallbackCatch == [status |-> 200, ResultCode |-> 1]

\* the success branch settling every transaction of the matched one's phone
\* and amount
OnSuccessByPhone(txs, refs, idx, req) ==
    LET t == txs[idx]
        receipt == IF req.shape = "success" THEN ReceiptOf(req.key)
                   ELSE Undefined
        credited == t.referralId # Null
    IN [transactions |->
            [j \in 1..Len(txs) |->
                IF txs[j].phone = t.phone /\ txs[j].amount = t.amount
                THEN [txs[j] EXCEPT !.status = "success",
                                    !.mpesaReceiptNumber = receipt,
                                    !.referralEarnings =
                                        IF credited THEN referralEarnings
                                        ELSE @]
                ELSE txs[j]],
        referrals |-> IF credited THEN Credit(refs, t.referralId, t.id)
                      ELSE refs,
        res |-> CallbackOk]

\* sever.js 265-294: the success branch
OnSuccess(txs, refs, idx, req) ==
    LET t == txs[idx]
        receipt == IF req.shape = "success" THEN ReceiptOf(req.key)
                   ELSE Undefined
        credited == t.referralId # Null
    IN [transactions |->
            [txs EXCEPT ![idx] =
                [t EXCEPT !.status = "success",
                          !.mpesaReceiptNumber = receipt,
                          !.referralEarnings =
                              IF credited THEN referralEarnings ELSE @]],
        referrals |-> IF credited THEN Credit(refs, t.referralId, t.id)
                      ELSE refs,
        res |-> CallbackOk]

\* the failure branch removing the failed transaction from the file
OnFailureDrop(txs, refs, idx) ==
    [transactions |-> SubSeq(txs, 1, idx - 1) \o SubSeq(txs, idx + 1, Len(txs)),
     referrals |-> refs,
     res |-> CallbackOk]

\* sever.js 302-307: the failure branch
OnFailure(txs, refs, idx) ==
    [transactions |-> [txs EXCEPT ![idx].status = "failed",
                                  ![idx].errorMessage = ResultDesc],
     referrals |-> refs,
     res |-> CallbackOk]

\* sever.js 251-317: the whole handler, as the files and the answer it leaves
CallbackHandler(txs, refs, req) ==
    LET idx == findIndex(txs, req.key)
        same(res) == [transactions |-> txs, referrals |-> refs, res |-> res]
    IN IF req.shape = "malformed" THEN same(CallbackCatch)
       ELSE IF idx = 0 THEN same(CallbackOk)
       ELSE IF req.shape = "failed" THEN OnFailure(txs, refs, idx)
       ELSE IF req.shape = "successNoMeta" THEN same(CallbackCatch)
       ELSE OnSuccess(txs, refs, idx, req)

----------------------------------------------------------------------------
(* sever.js: actions *)

Running(s) == server = s

\* sever.js 191: the handler's locals; phone holds formattedPhone once it is
\* computed, calls counts the requests the handler has sent to the gateway
Locals(b) ==
    [service |-> b.service, plan |-> b.plan, amount |-> b.amount,
     referralId |-> b.referralId, id |-> Undefined, phone |-> <<>>,
     pc |-> "start", calls |-> 0, stk |-> NoReply, res |-> 0]

\* sever.js 189-206: validation, then the call of initiateSTKPush up to its
\* first await (the token request)
PayRequest(b) ==
    /\ Running("sever.js")
    /\ Len(pays) < MaxPay
    /\ pays' = Append(pays,
          IF MissingFields(b)
          THEN [Locals(b) EXCEPT !.pc = "done", !.res = 400]
          ELSE [Locals(b) EXCEPT !.id = uuidv4(Len(pays) + 1),
                                 !.phone = formattedPhone(b.phone),
                                 !.pc = "token", !.calls = 1])
    /\ UNCHANGED <<server, transactions, referrals, gwIssued, gwAcked, nCb, cb,
                   nGen, nodeEnv, phVars, q>>

\* sever.js 114-140: the token arrives and the STK push request is sent
PayTokenOk(i) ==
    /\ Running("sever.js")
    /\ i \in 1..Len(pays)
    /\ pays[i].pc = "token"
    /\ pays' = [pays EXCEPT ![i].pc = "stk", ![i].calls = 2]
    /\ UNCHANGED <<server, transactions, referrals, gwIssued, gwAcked, nCb, cb,
                   nGen, nodeEnv, phVars, q>>

\* sever.js 95-98, 143-146, 241-247: the token request fails
PayTokenFail(i) ==
    /\ Running("sever.js")
    /\ i \in 1..Len(pays)
    /\ pays[i].pc = "token"
    /\ pays' = [pays EXCEPT ![i].pc = "done", ![i].stk = StkThrown,
                            ![i].res = 500]
    /\ UNCHANGED <<server, transactions, referrals, gwIssued, gwAcked, nCb, cb,
                   nGen, nodeEnv, phVars, q>>

\* the gateway answers the push request; from an acceptance on, it may send
\* the callback of that checkout
GatewayStk(i, reply) ==
    /\ Running("sever.js")
    /\ i \in 1..Len(pays)
    /\ pays[i].pc = "stk"
    /\ \/ reply = StkAccepted(CheckoutId(Cardinality(gwIssued) + 1))
       \/ reply \in {StkAccepted(Undefined), StkRefused, StkThrown}
    /\ pays' = [pays EXCEPT ![i].pc = "resume", ![i].stk = reply]
    /\ gwIssued' = IF reply.CheckoutRequestID # Undefined
                   THEN gwIssued \cup {reply.CheckoutRequestID}
                   ELSE gwIssued
    /\ UNCHANGED <<server, transactions, referrals, gwAcked, nCb, cb, nGen,
                   nodeEnv, phVars, q>>

\* sever.js 210-223
NewTransaction(p) ==
    [id |-> p.id,
     phone |-> p.phone,
     service |-> p.service,
     plan |-> p.plan,
     amount |-> p.amount,
     checkoutRequestID |-> p.stk.CheckoutRequestID,
     status |-> "pending",
     referralId |-> IF p.referralId = Undefined THEN Null
                    ELSE p.referralId,
     mpesaReceiptNumber |-> Undefined,
     errorMessage |-> Undefined,
     referralEarnings |-> 0]

\* PayResume writing back a list read before the await, when the file was
\* empty
PayResumeStale(i) ==
    /\ Running("sever.js")
    /\ i \in 1..Len(pays)
    /\ pays[i].pc = "resume"
    /\ IF pays[i].stk.ResponseCode = "0"
       THEN /\ transactions' = <<NewTransaction(pays[i])>>
            /\ pays' = [pays EXCEPT ![i].pc = "done", ![i].res = 200]
       ELSE /\ UNCHANGED transactions
            /\ pays' = [pays EXCEPT ![i].pc = "done",
                          ![i].res = IF pays[i].stk.ResponseCode = "throw"
                                     THEN 500 ELSE 400]
    /\ UNCHANGED <<server, referrals, gwIssued, gwAcked, nCb, cb, nGen,
                   nodeEnv, phVars, q>>

\* sever.js 208-247: the handler resumes after await initiateSTKPush
PayResume(i) ==
    /\ Running("sever.js")
    /\ i \in 1..Len(pays)
    /\ pays[i].pc = "resume"
    /\ IF pays[i].stk.ResponseCode = "0"
       THEN /\ transactions' = Append(transactions, NewTransaction(pays[i]))
            /\ pays' = [pays EXCEPT ![i].pc = "done", ![i].res = 200]
       ELSE /\ UNCHANGED transactions
            /\ pays' = [pays EXCEPT ![i].pc = "done",
                          ![i].res = IF pays[i].stk.ResponseCode = "throw"
                                     THEN 500 ELSE 400]
    /\ UNCHANGED <<server, referrals, gwIssued, gwAcked, nCb, cb, nGen,
                   nodeEnv, phVars, q>>

\* the payloads that carry the result of a checkout as the gateway sends it
WellFormed == {"success", "successNoReceipt", "failed"}

\* payloads the gateway (or anyone who knows the URL) may post
CbRequests ==
    [shape : CbShapes \ {"malformed"},
     key : gwIssued \cup {ForeignKey, Undefined}]
    \cup {[shape |-> "malformed", key |-> Undefined]}

\* sever.js 251-317
Callback(req) ==
    /\ Running("sever.js")
    /\ nCb < MaxCb
    /\ req \in CbRequests
    /\ LET out == CallbackHandler(transactions, referrals, req)
       IN /\ transactions' = out.transactions
          /\ referrals' = out.referrals
          /\ cb' = out.res
          /\ gwAcked' = IF /\ req.key \in gwIssued
                           /\ req.shape \in WellFormed
                           /\ out.res.status = 200
                        THEN gwAcked \cup {req.key}
                        ELSE gwAcked
    /\ nCb' = nCb + 1
    /\ UNCHANGED <<server, pays, gwIssued, nGen, nodeEnv, phVars, q>>

\* ReferralGenerate without the test for an existing account
ReferralGenerateOverwrite(userId) ==
    /\ Running("sever.js")
    /\ nGen < MaxGen
    /\ LET referralId == IF userId = Undefined
                         THEN "u" \o ToString(nGen + 1) ELSE userId
       IN referrals' =
            [c \in DOMAIN referrals \cup {referralId} |->
                IF c = referralId
                THEN [earnings |-> 0, totalEarnings |-> 0,
                      transactions |-> <<>>]
                ELSE referrals[c]]
    /\ nGen' = nGen + 1
    /\ UNCHANGED <<server, transactions, pays, gwIssued, gwAcked, nCb, cb,
                   nodeEnv, phVars, q>>

\* sever.js 337-358; a request without userId gets a fresh code
ReferralGenerate(userId) ==
    /\ Running("sever.js")
    /\ nGen < MaxGen
    /\ LET referralId == IF userId = Undefined
                         THEN "u" \o ToString(nGen + 1) ELSE userId
       IN referrals' =
            IF referralId \in DOMAIN referrals THEN referrals
            ELSE [c \in DOMAIN referrals \cup {referralId} |->
                    IF c = referralId
                    THEN [earnings |-> 0, totalEarnings |-> 0,
                          transactions |-> <<>>]
                    ELSE referrals[c]]
    /\ nGen' = nGen + 1
    /\ UNCHANGED <<server, transactions, pays, gwIssued, gwAcked, nCb, cb,
                   nodeEnv, phVars, q>>

----------------------------------------------------------------------------
(* part_000: values *)

PhPhones == {<<>>, <<"0", "7">>, <<"+", "2", "5", "4", "7">>}
PhAmounts == {<<>>, <<"5", "0">>, <<"1", "0", "0">>, <<"a", "b", "c">>}

Digits == <<"0", "1", "2", "3", "4", "5", "6", "7", "8", "9">>

IsDigit(c) == \E d \in 1..Len(Digits) : Digits[d] = c

DigitVal(c) == (CHOOSE d \in 1..Len(Digits) : Digits[d] = c) - 1

RECURSIVE DigitsValue(_, _)
\* the number written by the digits at the head of s, after acc
DigitsValue(s, acc) ==
    IF s = <<>> \/ ~IsDigit(Head(s)) THEN acc
    ELSE DigitsValue(Tail(s), acc * 10 + DigitVal(Head(s)))

\* part_000 60: parseInt(amount); NaN when no digit leads
parseInt(s) ==
    IF s = <<>> \/ ~IsDigit(Head(s)) THEN [nan |-> TRUE, val |-> 0]
    ELSE [nan |-> FALSE, val |-> DigitsValue(s, 0)]

MinAmount == 100

\* part_000 61: paymentAmount < 100, false for NaN
BelowMinimum(paymentAmount) ==
    ~paymentAmount.nan /\ paymentAmount.val < MinAmount

\* part_000 52-57
phFormattedPhone(phone) ==
    IF StartsWith(phone, <<"0">>) THEN <<"2", "5", "4">> \o Slice(phone, 1)
    ELSE IF StartsWith(phone, <<"+", "2", "5", "4">>) THEN Slice(phone, 1)
    ELSE phone

PhBodies ==
    { b \in [phone : PhPhones, amount : PhAmounts, service : Services,
             referralCode : Codes \cup {Undefined}] :
        \/ b.phone # <<>> /\ b.service # "" /\ b.amount # <<>>
        \/ /\ b.referralCode = Undefined
           /\ b \in { [phone |-> <<>>, amount |-> <<"1", "0", "0">>,
                       service |-> "netflix", referralCode |-> Undefined],
                      [phone |-> <<"0", "7">>, amount |-> <<>>,
                       service |-> "netflix", referralCode |-> Undefined],
                      [phone |-> <<"0", "7">>, amount |-> <<"1", "0", "0">>,
                       service |-> "", referralCode |-> Undefined] } }

\* part_000 44: !phone || !amount || !service
PhMissingFields(b) == b.phone = <<>> \/ b.amount = <<>> \/ b.service = ""

PhReward == 10

\* part_000 103-108
PhCredit(refs, code) ==
    LET acct == IF code \in DOMAIN refs THEN refs[code]
                ELSE [earnings |-> 0, payments |-> 0]
        upd == [earnings |-> acct.earnings + PhReward,
                payments |-> acct.payments + 1]
    IN [c \in DOMAIN refs \cup {code} |-> IF c = code THEN upd ELSE refs[c]]

\* part_000 41: the handler's locals
PhLocals(b) ==
    [amount |-> b.amount, service |-> b.service,
     referralCode |-> b.referralCode, formattedPhone |-> <<>>,
     paymentAmount |-> parseInt(<<>>), pc |-> "start", calls |-> 0,
     reply |-> "none", res |-> [status |-> 0, success |-> FALSE]]

\* part_000 45-48, 62-65, 123-126
PhBadRequest == [status |-> 400, success |-> FALSE]

\* part_000 116-121
PhPushSent == [status |-> 200, success |-> TRUE]

\* part_000 133-148: the catch block
PhCatch(env) ==
    IF env = "development" THEN [status |-> 200, success |-> TRUE]
    ELSE [status |-> 500, success |-> FALSE]

----------------------------------------------------------------------------
(* part_000: actions *)

\* part_000 39-96: validation, then the request to the gateway
PhPayRequest(b) ==
    /\ Running("part_000")
    /\ Len(phPays) < MaxPhPay
    /\ phPays' = Append(phPays,
          IF PhMissingFields(b)
          THEN [PhLocals(b) EXCEPT !.pc = "done", !.res = PhBadRequest]
          ELSE IF BelowMinimum(parseInt(b.amount))
          THEN [PhLocals(b) EXCEPT !.formattedPhone = phFormattedPhone(b.phone),
                                   !.paymentAmount = parseInt(b.amount),
                                   !.pc = "done", !.res = PhBadRequest]
          ELSE [PhLocals(b) EXCEPT !.formattedPhone = phFormattedPhone(b.phone),
                                   !.paymentAmount = parseInt(b.amount),
                                   !.pc = "await", !.calls = 1])
    /\ UNCHANGED <<server, severVars, nodeEnv, q, phReferrals, phCb>>

\* the gateway answers: ResponseCode '0', another ResponseCode, or no usable
\* answer (axios throws)
PhGateway(i, reply) ==
    /\ Running("part_000")
    /\ i \in 1..Len(phPays)
    /\ phPays[i].pc = "await"
    /\ reply \in {"0", "1", "throw"}
    /\ phPays' = [phPays EXCEPT ![i].pc = "resume", ![i].reply = reply]
    /\ UNCHANGED <<server, severVars, nodeEnv, q, phReferrals, phCb>>

\* part_000 98-149: the handler resumes after await axios.post
PhPayResume(i) ==
    /\ Running("part_000")
    /\ i \in 1..Len(phPays)
    /\ phPays[i].pc = "resume"
    /\ phReferrals' =
          IF phPays[i].reply = "0" /\ phPays[i].referralCode # Undefined
          THEN PhCredit(phReferrals, phPays[i].referralCode)
          ELSE phReferrals
    /\ phPays' = [phPays EXCEPT
          ![i].pc = "done",
          ![i].res = IF phPays[i].reply = "0" THEN PhPushSent
                     ELSE IF phPays[i].reply = "1" THEN PhBadRequest
                     ELSE PhCatch(nodeEnv)]
    /\ UNCHANGED <<server, severVars, nodeEnv, q, phCb>>

\* part_000 153-156
PhCallbackStatus == 200

PhCallback ==
    /\ Running("part_000")
    /\ Len(phCb) < MaxPhCb
    /\ phCb' = Append(phCb, PhCallbackStatus)
    /\ UNCHANGED <<server, severVars, nodeEnv, q, phReferrals, phPays>>

----------------------------------------------------------------------------
(* Read requests.  The answer is the HTTP status and the JSON body: the      *)
(* body is <<record>> when data is returned and <<>> for an error message.   *)

NoQuery == [status |-> 0, body |-> <<>>]

\* ids and codes that read requests ask for: the ones the server hands out,
\* and one of each that it never saw
UnknownId == "tx-unknown"
UnknownCode == "XYZ"

QueryIds == {uuidv4(n) : n \in 1..MaxPay} \cup {UnknownId}
QueryCodes == Codes \cup {UnknownCode}

\* sever.js 325-327, 365-367, 410-412
NotFound == [status |-> 404, body |-> <<>>]

\* sever.js 329, 369, 418; part_000 162
Found(record) == [status |-> 200, body |-> <<record>>]

\* sever.js 322-329: transactions.find
TransactionView(txs, id) ==
    IF \E j \in 1..Len(txs) : txs[j].id = id
    THEN Found(txs[CHOOSE j \in 1..Len(txs) :
                     /\ txs[j].id = id
                     /\ \A k \in 1..(j - 1) : txs[k].id # id])
    ELSE NotFound

\* sever.js 362-369
ReferralView(refs, id) ==
    IF id \in DOMAIN refs THEN Found(refs[id]) ELSE NotFound

\* sever.js 407-418
PayoutView(refs, ref) ==
    IF ref \in DOMAIN refs
    THEN Found([success |-> TRUE, earnings |-> refs[ref].earnings])
    ELSE NotFound

\* part_000 160-162: referrals[code] || { earnings: 0, payments: 0 }
PhReferralView(refs, code) ==
    Found(IF code \in DOMAIN refs THEN refs[code]
          ELSE [earnings |-> 0, payments |-> 0])

\* sever.js 320-334
TransactionGet(id) ==
    /\ Running("sever.js")
    /\ q' = TransactionView(transactions, id)
    /\ UNCHANGED <<server, severVars, nodeEnv, phVars>>

\* sever.js 360-374
ReferralGet(id) ==
    /\ Running("sever.js")
    /\ q' = ReferralView(referrals, id)
    /\ UNCHANGED <<server, severVars, nodeEnv, phVars>>

\* sever.js 405-423
Payout(ref) ==
    /\ Running("sever.js")
    /\ q' = PayoutView(referrals, ref)
    /\ UNCHANGED <<server, severVars, nodeEnv, phVars>>

\* part_000 159-163
PhReferralGet(code) ==
    /\ Running("part_000")
    /\ q' = PhReferralView(phReferrals, code)
    /\ UNCHANGED <<server, severVars, nodeEnv, phVars>>

----------------------------------------------------------------------------

NoCallback == [status |-> 0, ResultCode |-> 0]

Init ==
    /\ server \in Servers
    /\ nodeEnv \in IF server = "part_000" THEN {"development", "production"}
                   ELSE {"production"}
    /\ transactions = <<>>
    /\ referrals = <<>>
    /\ pays = <<>>
    /\ gwIssued = {}
    /\ gwAcked = {}
    /\ nCb = 0
    /\ cb = NoCallback
    /\ nGen = 0
    /\ phReferrals = <<>>
    /\ phPays = <<>>
    /\ phCb = <<>>
    /\ q = NoQuery

Next ==
    \/ \E b \in PayBodies : PayRequest(b)
    \/ \E i \in 1..MaxPay : PayTokenOk(i)
    \/ \E i \in 1..MaxPay : PayTokenFail(i)
    \/ \E i \in 1..MaxPay :
         \E reply \in {StkAccepted(CheckoutId(Cardinality(gwIssued) + 1)),
                       StkAccepted(Undefined), StkRefused, StkThrown} :
            GatewayStk(i, reply)
    \/ \E i \in 1..MaxPay : PayResume(i)
    \/ \E req \in CbRequests : Callback(req)
    \/ \E u \in Codes \cup {Undefined} : ReferralGenerate(u)
    \/ \E b \in PhBodies : PhPayRequest(b)
    \/ \E i \in 1..MaxPhPay : \E reply \in {"0", "1", "throw"} :
          PhGateway(i, reply)
    \/ \E i \in 1..MaxPhPay : PhPayResume(i)
    \/ PhCallback

Spec == Init /\ [][Next]_vars

\* Spec with the steps that the runtime and the gateway take on their own:
\* every outstanding token request and push is answered, and a handler whose
\* await has settled is resumed
FairSpec ==
    /\ Spec
    /\ \A i \in 1..MaxPay :
          /\ WF_vars(PayTokenOk(i) \/ PayTokenFail(i))
          /\ WF_vars(\E reply \in {StkAccepted(CheckoutId(Cardinality(gwIssued) + 1)),
                                   StkAccepted(Undefined), StkRefused,
                                   StkThrown} : GatewayStk(i, reply))
          /\ WF_vars(PayResume(i))

\* the read requests
Reads ==
    \/ \E id \in QueryIds : TransactionGet(id)
    \/ \E c \in QueryCodes : ReferralGet(c)
    \/ \E c \in QueryCodes : Payout(c)
    \/ \E c \in QueryCodes : PhReferralGet(c)

NextAll == Next \/ Reads

\* every route of the two servers
SpecAll == Init /\ [][NextAll]_vars

----------------------------------------------------------------------------
(* Properties *)

Terminal(status) == status \in {"success", "failed"}

TxIndexes == 1..Len(transactions)

\* the positions of the transactions that carry the handler's id
RecordsOf(id) == {j \in TxIndexes : transactions[j].id = id}

Earnings(refs, c) == IF c \in DOMAIN refs THEN refs[c].earnings ELSE 0

HistoryIds(acct) ==
    {acct.transactions[j].transactionId : j \in 1..Len(acct.transactions)}

\* C1: a success callback for a transaction that the same success callback
\* (same CheckoutRequestID, same receipt) has already settled and that cites
\* a referral code changes neither the referral accounts nor the
\* transactions: the reward is added once, the later delivery is a no-op.
C1_IdempotentDelivery ==
    [][\A req \in CbRequests :
          LET idx == findIndex(transactions, req.key)
          IN (/\ Callback(req)
              /\ req.key \in gwIssued
              /\ req.shape = "success"
              /\ idx # 0
              /\ transactions[idx].status = "success"
              /\ transactions[idx].mpesaReceiptNumber = ReceiptOf(req.key)
              /\ transactions[idx].referralId # Null)
             => /\ referrals' = referrals
                /\ transactions' = transactions]_vars

\* C2: once a transaction with a CheckoutRequestID is success or failed, no step changes its status,
\* its mpesaReceiptNumber or its errorMessage.
C2_TerminalImmutable ==
    [][\A i \in TxIndexes :
          (/\ Terminal(transactions[i].status)
           /\ transactions[i].checkoutRequestID \in gwIssued)
          => /\ i <= Len(transactions')
             /\ transactions'[i].status = transactions[i].status
             /\ transactions'[i].mpesaReceiptNumber
                   = transactions[i].mpesaReceiptNumber
             /\ transactions'[i].errorMessage
                   = transactions[i].errorMessage]_vars

\* C3: for every referral code, earnings is the reward times the number of
\* credits (length of the history, or the payments counter), and the number
\* of credits is the number of distinct transaction ids in the history.
C3_NoDoubleCredit ==
    /\ \A c \in DOMAIN referrals :
          /\ referrals[c].earnings
                = referralEarnings * Len(referrals[c].transactions)
          /\ Len(referrals[c].transactions)
                = Cardinality(HistoryIds(referrals[c]))
    /\ \A c \in DOMAIN phReferrals :
          phReferrals[c].earnings = PhReward * phReferrals[c].payments

\* C4: a step that changes the earnings of a referral code leaves a
\* transaction that cites the code with status success, and is not a step of
\* a payment initiation.
C4_RewardOnlyOnSuccess ==
    [][/\ \A c \in DOMAIN referrals' :
             Earnings(referrals', c) # Earnings(referrals, c)
             => /\ pays' = pays
                /\ \E i \in 1..Len(transactions') :
                      /\ transactions'[i].referralId = c
                      /\ transactions'[i].status = "success"
       /\ \A c \in DOMAIN phReferrals' :
             Earnings(phReferrals', c) # Earnings(phReferrals, c)
             => phPays' = phPays]_vars

\* C5: every initiation request that passes validation ends with exactly one
\* transaction record, which is pending or failed when the handler finishes
\* and is success only after a callback has been answered.
C5_OneTransactionPerRequest ==
    \A i \in 1..Len(pays) :
        (pays[i].id # Undefined /\ pays[i].pc = "done")
        => /\ Cardinality(RecordsOf(pays[i].id)) = 1
           /\ \A j \in RecordsOf(pays[i].id) :
                 /\ transactions[j].status \in {"pending", "failed", "success"}
                 /\ transactions[j].status = "success" => nCb > 0

\* C6: a request whose amount is below the minimum is answered 400 without a
\* request to the gateway and without a transaction.
C6_BelowMinimumRejected ==
    /\ \A i \in 1..Len(pays) :
          pays[i].amount < MinAmount
          => /\ pays[i].pc = "done"
             /\ pays[i].res = 400
             /\ pays[i].calls = 0
             /\ pays[i].id = Undefined
    /\ \A i \in 1..Len(phPays) :
          (\E n \in 0..(MinAmount - 1) :
              parseInt(phPays[i].amount) = [nan |-> FALSE, val |-> n])
          => /\ phPays[i].pc = "done"
             /\ phPays[i].res.status = 400
             /\ phPays[i].calls = 0

\* C7: every callback is answered with HTTP 200, whether it resolved, did
\* not resolve, or made the handler throw.
C7_CallbackAlways200 ==
    /\ nCb > 0 => cb.status = 200
    /\ \A j \in 1..Len(phCb) : phCb[j] = 200

\* C7 witness: a callback made the sever.js handler throw while transactions
\* are stored, and the catch block answered
C7_Witness ==
    nCb > 0 /\ cb = CallbackCatch /\ Len(transactions) > 0

\* C8: when the result of a checkout has been delivered and acknowledged and
\* the initiating handler has stored the transaction, the transaction is
\* settled (success or failed), also when the delivery came first.
C8_OutOfOrderReconciled ==
    \A i \in 1..Len(pays) :
        (/\ pays[i].pc = "done"
         /\ pays[i].res = 200
         /\ pays[i].stk.CheckoutRequestID \in gwAcked)
        => \A j \in RecordsOf(pays[i].id) : Terminal(transactions[j].status)

\* C9: when the gateway refuses the push or the request fails, the handler
\* ends with a transaction in status failed that carries a reason, and the
\* caller gets an error.
C9_FailurePersisted ==
    /\ \A i \in 1..Len(pays) :
          (pays[i].pc = "done" /\ pays[i].stk.ResponseCode \in {"1", "throw"})
          => /\ pays[i].res \in {400, 500}
             /\ \E j \in RecordsOf(pays[i].id) :
                   /\ transactions[j].status = "failed"
                   /\ transactions[j].errorMessage # Undefined
    /\ \A i \in 1..Len(phPays) :
          (phPays[i].pc = "done" /\ phPays[i].reply \in {"1", "throw"})
          => ~phPays[i].res.success /\ phPays[i].res.status \in {400, 500}

\* the transactions that cite code c and carry the mark of a credit
Credited(c) ==
    {i \in TxIndexes : /\ transactions[i].referralId = c
                       /\ transactions[i].referralEarnings = referralEarnings}

\* C10: the credits of callbacks for different transactions citing one code
\* all arrive: the account holds the reward once per credited transaction at
\* least, and a history entry for each of them.
C10_NoLostUpdate ==
    \A c \in Codes :
        Credited(c) # {}
        => /\ c \in DOMAIN referrals
           /\ referrals[c].earnings
                 >= referralEarnings * Cardinality(Credited(c))
           /\ \A i \in Credited(c) :
                 transactions[i].id \in HistoryIds(referrals[c])

\* C10 witness: two transactions citing one code have both been credited
C10_Witness ==
    \E c \in Codes :
        /\ Cardinality(Credited(c)) = 2
        /\ c \in DOMAIN referrals
        /\ referrals[c].earnings = 2 * referralEarnings

\* C11: a transaction or referral read for a key that is not stored is
\* answered 404 without a record, and no read changes the transactions or
\* the referral accounts.
C11_UnknownKeyNotFound ==
    [][/\ \A id \in QueryIds :
             TransactionGet(id)
             => /\ RecordsOf(id) = {} => q' = NotFound
                /\ transactions' = transactions /\ referrals' = referrals
       /\ \A c \in QueryCodes :
             ReferralGet(c)
             => /\ c \notin DOMAIN referrals => q' = NotFound
                /\ transactions' = transactions /\ referrals' = referrals
       /\ \A c \in QueryCodes :
             PhReferralGet(c)
             => /\ c \notin DOMAIN phReferrals
                      => q'.status = 404 /\ q'.body = <<>>
                /\ phReferrals' = phReferrals]_vars

\* C12: whenever the STK push of a request has been sent to the gateway, the
\* transaction of that request is stored.
C12_PersistBeforeCall ==
    \A i \in 1..Len(pays) :
        pays[i].calls >= 2 => RecordsOf(pays[i].id) # {}

\* C13: a transaction (with a CheckoutRequestID of the gateway) that carries
\* the mark of a referral credit (referralEarnings) has status success.
C13_AppliedImpliesSucceeded ==
    \A j \in TxIndexes :
        (/\ transactions[j].checkoutRequestID \in gwIssued
         /\ transactions[j].referralEarnings # 0)
        => transactions[j].status = "success"

\* C14: a transaction (with a CheckoutRequestID of the gateway) has an
\* mpesaReceiptNumber only in status success, an errorMessage only in status
\* failed, and never both.
C14_OutcomeFieldsMatchStatus ==
    \A j \in TxIndexes :
        transactions[j].checkoutRequestID \in gwIssued =>
        /\ transactions[j].mpesaReceiptNumber # Undefined
              => transactions[j].status = "success"
        /\ transactions[j].errorMessage # Undefined
              => transactions[j].status = "failed"
        /\ ~(/\ transactions[j].mpesaReceiptNumber # Undefined
             /\ transactions[j].errorMessage # Undefined)

\* C15: every transaction stored as pending has a CheckoutRequestID, and an
\* acceptance without one ends the request as a failure.
C15_PendingHasKey ==
    /\ \A j \in TxIndexes :
          transactions[j].status = "pending"
          => transactions[j].checkoutRequestID # Undefined
    /\ \A i \in 1..Len(pays) :
          (pays[i].pc = "done" /\ pays[i].stk = StkAccepted(Undefined))
          => pays[i].res # 200

\* C16: a callback whose CheckoutRequestID no stored transaction carries
\* changes no transaction and no referral account.
C16_UnresolvedDiscarded ==
    [][/\ \A req \in CbRequests :
             (/\ Callback(req)
              /\ \A j \in TxIndexes :
                    transactions[j].checkoutRequestID # req.key)
             => transactions' = transactions /\ referrals' = referrals
       /\ PhCallback => phReferrals' = phReferrals]_vars

\* C16 witness: callbacks for a CheckoutRequestID the gateway has handed out
\* were answered while no transaction is stored
C16_Witness ==
    /\ nCb > 0
    /\ cb = CallbackOk
    /\ gwIssued # {}
    /\ gwAcked # {}
    /\ transactions = <<>>

\* the request i has passed validation
Submitted(i) == i <= Len(pays) /\ pays[i].id # Undefined

\* the request i has a stored transaction that is pending or settled
Resolved(i) ==
    /\ i <= Len(pays)
    /\ \E j \in RecordsOf(pays[i].id) :
          transactions[j].status \in {"pending", "failed", "success"}

\* C17: every initiation request that passes validation eventually has its
\* transaction stored as pending or failed.
C17_InitiationResolves ==
    \A i \in 1..MaxPay : Submitted(i) ~> Resolved(i)

\* C18: no step removes a referral account or lowers its earnings.
C18_EarningsMonotone ==
    [][/\ \A c \in DOMAIN referrals :
             /\ c \in DOMAIN referrals'
             /\ referrals'[c].earnings >= referrals[c].earnings
       /\ \A c \in DOMAIN phReferrals :
             /\ c \in DOMAIN phReferrals'
             /\ phReferrals'[c].earnings >= phReferrals[c].earnings]_vars

\* C18 witness: an account that was credited twice, with a registration
\* handled and a payout request answered with its earnings
C18_Witness ==
    \E c \in DOMAIN referrals :
        /\ referrals[c].earnings = 2 * referralEarnings
        /\ nGen > 0
        /\ q = PayoutView(referrals, c)

\* the fields of a transaction that are set at creation
Created(t) ==
    [id |-> t.id, phone |-> t.phone, service |-> t.service, plan |-> t.plan,
     amount |-> t.amount, referralId |-> t.referralId]

\* C19: every stored transaction is still stored after any step, with the
\* id, phone, service, plan, amount and referral code it had.
C19_AppendOnly ==
    [][\A i \in TxIndexes :
          \E j \in 1..Len(transactions') :
              Created(transactions'[j]) = Created(transactions[i])]_vars

\* C19 witness: two stored transactions, one settled as success and one as
\* failed by callbacks
C19_Witness ==
    \E i, j \in TxIndexes :
        /\ transactions[i].id # transactions[j].id
        /\ transactions[i].status = "success"
        /\ transactions[j].status = "failed"

\* C20: the write of a handler keeps what the other handlers wrote: the
\* resumed /api/pay handler leaves every stored record as it is (status
\* updates of callbacks included) and adds its own record last, and a
\* callback keeps every record in place.
C20_AtomicReadModifyWrite ==
    [][/\ \A i \in 1..Len(pays) :
             PayResume(i)
             => /\ Len(transactions') >= Len(transactions)
                /\ SubSeq(transactions', 1, Len(transactions)) = transactions
                /\ pays'[i].res = 200
                      => /\ Len(transactions') = Len(transactions) + 1
                         /\ transactions'[Len(transactions')].id = pays[i].id
       /\ \A req \in CbRequests :
             Callback(req)
             => /\ Len(transactions') = Len(transactions)
                /\ \A j \in TxIndexes :
                      transactions'[j].id = transactions[j].id]_vars

\* C20 witness: a /api/pay handler is suspended past its await with an
\* accepted push while a callback has settled a stored transaction
C20_Witness ==
    /\ \E i \in 1..Len(pays) :
          pays[i].pc = "resume" /\ pays[i].stk.ResponseCode = "0"
    /\ \E j \in TxIndexes : Terminal(transactions[j].status)

\* the positions of the stored transactions that a step changes
ChangedTx ==
    {j \in TxIndexes : j > Len(transactions') \/ transactions'[j] # transactions[j]}

\* C21: a callback changes at most one stored transaction, and only one
\* whose checkoutRequestID is the callback's CheckoutRequestID; every other
\* transaction, one with the same phone and amount included, stays as it is.
C21_OnlyMatchedChanged ==
    [][\A req \in CbRequests :
          Callback(req)
          => /\ Len(transactions') = Len(transactions)
             /\ Cardinality(ChangedTx) <= 1
             /\ \A j \in ChangedTx :
                   transactions[j].checkoutRequestID = req.key]_vars

\* C21 witness: of two stored transactions with the same phone and amount
\* and different gateway keys, a callback has settled one as success and
\* the other is still pending
C21_Witness ==
    \E i, j \in TxIndexes :
        /\ transactions[i].phone = transactions[j].phone
        /\ transactions[i].amount = transactions[j].amount
        /\ transactions[i].checkoutRequestID \in gwIssued
        /\ transactions[j].checkoutRequestID \in gwIssued
        /\ transactions[i].checkoutRequestID # transactions[j].checkoutRequestID
        /\ transactions[i].status = "success"
        /\ transactions[i].mpesaReceiptNumber =
              ReceiptOf(transactions[i].checkoutRequestID)
        /\ transactions[j].status = "pending"

\* the account that referral generate creates
ZeroAccount == [earnings |-> 0, totalEarnings |-> 0, transactions |-> <<>>]

\* C22: referral generate leaves every existing referral account as it is
\* (earnings, totalEarnings and history), whether a registration or a
\* credited payment created it, and creates a zero-balance account only for
\* a code that has none.
C22_GenerateNonDestructive ==
    [][\A u \in Codes \cup {Undefined} :
          ReferralGenerate(u)
          => /\ \A c \in DOMAIN referrals :
                   c \in DOMAIN referrals' /\ referrals'[c] = referrals[c]
             /\ \A c \in DOMAIN referrals' \ DOMAIN referrals :
                   referrals'[c] = ZeroAccount
             /\ u \in DOMAIN referrals => referrals' = referrals
             /\ Cardinality(DOMAIN referrals' \ DOMAIN referrals) <= 1]_vars

\* C22 witness: two registrations were handled and the only account is a
\* credited one, so that a registration met an existing account
C22_Witness ==
    /\ nGen = 2
    /\ DOMAIN referrals = Codes
    /\ \A c \in Codes :
          /\ referrals[c].earnings = referralEarnings
          /\ referrals[c].totalEarnings = referralEarnings
          /\ Len(referrals[c].transactions) = 1

====
